---- MODULE Spec2Model ----
(***************************************************************************)
(* redback-runtime: the RuntimeScene orchestrator of src/src/main.rs as a  *)
(* state machine.  One action per Scene / Keyboard / Mouse callback.       *)
(*                                                                         *)
(* Collaborators that live in other crates (hecs, dropbear_engine,         *)
(* eucalyptus_core) are modelled at their call sites:                      *)
(*   - hecs::World is a sequence of entity records; the handle of an       *)
(*     entity is its index.  World::clear forgets every handle, so the     *)
(*     next world hands out the same handle values again.                  *)
(*   - queries iterate in handle order.                                    *)
(*   - vectors (positions, offsets, eye, target) and pointer positions are  *)
(*     modelled on one axis.                                               *)
(*   - every fallible collaborator call (load_into_world, load_script,     *)
(*     init_entity_script, update_entity_script, fs::read) gets its        *)
(*     outcome chosen nondeterministically by the calling action.          *)
(*   - a failing load_into_world leaves no entity behind (materialization  *)
(*     is all-or-nothing), so the world stays as line 229 cleared it.      *)
(*   - the window's cursor requests (set_cursor_visible and                *)
(*     set_cursor_position, whose result the code discards) take effect.   *)
(*   - a panic (unwrap, panic!) ends the process: phase "Halted" keeps the *)
(*     state the panic left.                                               *)
(*   - the engine's scene manager drives the callbacks: load, then frames  *)
(*     of update, run_command and render with input events between the     *)
(*     frames, then exit; after exit it may enter the scene again.         *)
(***************************************************************************)
EXTENDS Integers, Sequences, FiniteSets, TLC

VARIABLES
    runtime_data,        \* RuntimeData.scene_data: the declared scenes, in order
    scene_data,          \* RuntimeScene.scene_data: HashMap scene name -> SceneConfig
    current_scene_name,  \* RuntimeScene.current_scene_name
    world,               \* RuntimeScene.world: sequence of entity records
    script_manager,      \* RuntimeScene.script_manager: [scripts, instances]
    scene_command,       \* RuntimeScene.scene_command
    input_state,         \* RuntimeScene.input_state
    render_pipeline,     \* RuntimeScene.render_pipeline (Option)
    window,              \* RuntimeScene.window (Option) and the cursor it controls
    active_camera,       \* RuntimeScene.active_camera (Option of a handle)
    phase,               \* where the engine's scene manager is in the lifecycle
    last_load,           \* history: what the most recent load() asked for and got
    frame_log,           \* history: the steps taken by the current frame
    unbound,             \* history: handles whose script instance exit removed
    pointer,             \* history: net pointer movement delivered by mouse-move
                         \*          events since the end of the last update
    escaped,             \* history: Escape went down since the last run_command
    key_log              \* history: the keys whose latest event was key-down

vars == <<runtime_data, scene_data, current_scene_name, world, script_manager,
          scene_command, input_state, render_pipeline, window, active_camera,
          phase, last_load, frame_log, unbound, pointer, escaped, key_log>>

----------------------------------------------------------------------------
(* Bounds of the model *)

MaxScenes == 2      \* scenes declared in a package
MaxPos == 1         \* how far a script may move its entity along the axis
MaxCoord == 1       \* mouse coordinates range over 0..MaxCoord

----------------------------------------------------------------------------
(* Option<T> *)

None == << >>
Some(x) == << x >>
IsSome(o) == o # << >>
Unwrap(o) == o[1]

----------------------------------------------------------------------------
(* Package contents *)

PatrolScript == [name |-> "patrol.script", file |-> "patrol.script"]
SpinScript == [name |-> "spin", file |-> "spin.rhai"]

Ent(label, pos, script) ==
    [label |-> label, adopted |-> TRUE, position |-> pos, instance |-> pos,
     script |-> script, camera |-> None, component |-> None, follow |-> None]

Cam(ctype, eye, target, follow) ==
    [label |-> "", adopted |-> FALSE, position |-> 0, instance |-> 0,
     script |-> None,
     camera |-> Some([eye |-> eye, target |-> target,
                      uniform |-> <<eye, target>>, look |-> 0]),
     component |-> Some([camera_type |-> ctype]), follow |-> follow]

\* Two scripted entities and a player camera that follows the first of them.
MainSpawns ==
    << Ent("Hero", 0, Some(PatrolScript)),
       Ent("Rock", 0, Some(SpinScript)),
       Cam("Player", 2, 0, Some([follow_target |-> "Hero", offset |-> 1])) >>

\* One unscripted entity and a debug camera with no follow target.
PlainSpawns ==
    << Cam("Debug", 2, 0, None),
       Ent("Hero", 1, None) >>

\* Two entities that share a label, a debug camera whose follow target names
\* no entity, and a player camera that follows the shared label.
ChaseSpawns ==
    << Ent("Hero", 0, Some(PatrolScript)),
       Ent("Hero", 1, None),
       Cam("Debug", 2, 0, Some([follow_target |-> "Ghost", offset |-> 1])),
       Cam("Player", 2, 0, Some([follow_target |-> "Hero", offset |-> 1])) >>

SceneConfigs ==
    { [scene_name |-> "Default", spawns |-> MainSpawns],
      [scene_name |-> "Default", spawns |-> PlainSpawns],
      [scene_name |-> "Default", spawns |-> ChaseSpawns],
      [scene_name |-> "Level2", spawns |-> MainSpawns] }

RECURSIVE SeqsUpTo(_, _)
SeqsUpTo(S, n) ==
    IF n = 0 THEN { << >> }
    ELSE LET shorter == SeqsUpTo(S, n - 1)
         IN shorter \cup { Append(s, x) : s \in shorter, x \in S }

RuntimeDatas == SeqsUpTo(SceneConfigs, MaxScenes)

----------------------------------------------------------------------------
(* RuntimeScene::new *)

EmptyMap == [n \in {} |-> None]

\* HashMap::insert: a later entry under the same key replaces the earlier one.
HashMapInsert(map, key, value) ==
    [k \in DOMAIN map \cup {key} |-> IF k = key THEN value ELSE map[k]]

HashMapGet(map, key) == IF key \in DOMAIN map THEN Some(map[key]) ELSE None

RECURSIVE InsertScenes(_, _)
InsertScenes(map, scenes) ==
    IF scenes = << >> THEN map
    ELSE InsertScenes(HashMapInsert(map, Head(scenes).scene_name, Head(scenes)),
                      Tail(scenes))

InputStateNew ==
    [pressed_keys |-> {}, mouse_button |-> {}, mouse_pos |-> 0,
     mouse_delta |-> None, is_cursor_locked |-> FALSE]

ScriptManagerNew == [scripts |-> {}, instances |-> {}]

NoLoad == [requested |-> None, result |-> "NotRun", binds |-> << >>]

Init ==
    /\ runtime_data \in RuntimeDatas
    /\ scene_data = InsertScenes(EmptyMap, runtime_data)
    /\ current_scene_name = ""
    /\ world = << >>
    /\ script_manager = ScriptManagerNew
    /\ scene_command = "None"
    /\ input_state = InputStateNew
    /\ render_pipeline = None
    /\ window = [some |-> FALSE, cursor_visible |-> TRUE, cursor_pos |-> 0]
    /\ active_camera = None
    /\ phase = "Unloaded"
    /\ last_load = NoLoad
    /\ frame_log = << >>
    /\ unbound = {}
    /\ pointer = 0
    /\ escaped = FALSE
    /\ key_log = {}

----------------------------------------------------------------------------
(* hecs::World queries *)

Handles(w) == 1..Len(w)

\* World::query_one::<&Camera>(entity): Err when the handle is not alive,
\* an empty QueryOne when the entity has no Camera.
HasCamera(w, e) == e \in Handles(w) /\ IsSome(w[e].camera)

HasCameraAndComponent(w, e) == HasCamera(w, e) /\ IsSome(w[e].component)

\* a query's result: the matching handles in iteration order
QueryIter(w, matching) ==
    SelectSeq([h \in 1..Len(w) |-> h], LAMBDA h : h \in matching)

IsScripted(ent) == IsSome(ent.script)
IsCamera(ent) == IsSome(ent.camera)
IsControlledCamera(ent) == IsSome(ent.camera) /\ IsSome(ent.component)
IsAdopted(ent) == ent.adopted

\* world.query::<&ScriptComponent>()
ScriptEntities(w) == QueryIter(w, { h \in Handles(w) : IsScripted(w[h]) })

\* world.query::<&mut Camera>()
Cameras(w) == QueryIter(w, { h \in Handles(w) : IsCamera(w[h]) })

\* world.query::<(&mut Camera, &CameraComponent, Option<&CameraFollowTarget>)>()
ControlledCameras(w) ==
    QueryIter(w, { h \in Handles(w) : IsControlledCamera(w[h]) })

\* world.query::<(&AdoptedEntity, &Transform)>()
AdoptedEntities(w) == QueryIter(w, { h \in Handles(w) : IsAdopted(w[h]) })

Range(s) == { s[i] : i \in DOMAIN s }

----------------------------------------------------------------------------
(* ScriptManager (eucalyptus_core), as used by RuntimeScene *)

\* load_script(name, source) registers the script under the name it is given
\* and returns that key.
LoadScript(sm, name) == [sm EXCEPT !.scripts = @ \cup {name}]

\* init_entity_script(entity, key): one instance per entity.
InitEntityScript(sm, entity, key) ==
    [sm EXCEPT !.instances = { i \in @ : i[1] # entity } \cup { <<entity, key>> }]

RemoveEntityScript(sm, entity) ==
    [sm EXCEPT !.instances = { i \in @ : i[1] # entity }]

HasInstance(sm, entity) == \E i \in sm.instances : i[1] = entity

----------------------------------------------------------------------------
(* RuntimeScene::load_scene *)

BindOutcomes == {"ok", "load_err", "init_err", "unreadable"}

\* SceneConfig::load_into_world returns the camera to activate: the player
\* camera if the scene has one, else the debug camera.
ActiveCameraOf(w) ==
    LET cameras == ControlledCameras(w)
        players == SelectSeq(cameras,
                     LAMBDA h : Unwrap(w[h].component).camera_type = "Player")
    IN IF players # << >> THEN Head(players) ELSE Head(cameras)

RECURSIVE BindScripts(_, _, _, _)
\* lines 243-264: the loop over script_entities.  fs::read(..).unwrap()
\* panics on an unreadable source and the loop stops there.
BindScripts(sm, w, script_entities, outcomes) ==
    IF script_entities = << >> THEN [script_manager |-> sm, panicked |-> FALSE]
    ELSE LET entity_id == Head(script_entities)
             script == Unwrap(w[entity_id].script)
             outcome == outcomes[entity_id]
         IN IF outcome = "unreadable"
            THEN [script_manager |-> sm, panicked |-> TRUE]
            ELSE IF outcome = "load_err"
            THEN BindScripts(sm, w, Tail(script_entities), outcomes)
            ELSE IF outcome = "init_err"
            THEN BindScripts(LoadScript(sm, script.file), w,
                             Tail(script_entities), outcomes)
            ELSE BindScripts(InitEntityScript(LoadScript(sm, script.file),
                                              entity_id, script.file),
                             w, Tail(script_entities), outcomes)

\* The scene state load_scene works on and what it returns.
LoadScene(scene_name, asset_ok, outcomes) ==
    LET cleared == << >>                               \* line 229
        scene == HashMapGet(scene_data, scene_name)    \* lines 231-234
    IN IF ~IsSome(scene)
       THEN [world |-> cleared, script_manager |-> script_manager,
             active_camera |-> active_camera,
             current_scene_name |-> current_scene_name,
             result |-> "SceneNotFound"]
       ELSE IF ~asset_ok                               \* line 236, the ? operator
       THEN [world |-> cleared, script_manager |-> script_manager,
             active_camera |-> active_camera,
             current_scene_name |-> current_scene_name,
             result |-> "AssetFailure"]
       ELSE LET loaded == Unwrap(scene).spawns
                bound == BindScripts(script_manager, loaded,
                                     ScriptEntities(loaded), outcomes)
            IN [world |-> loaded, script_manager |-> bound.script_manager,
                active_camera |-> Some(ActiveCameraOf(loaded)),
                current_scene_name |->
                    IF bound.panicked THEN current_scene_name ELSE scene_name,
                result |-> IF bound.panicked THEN "Panic" ELSE "Ok"]

----------------------------------------------------------------------------
(* Scene::load *)

StartupSceneName == "Default"                          \* line 295

\* The outcomes load_scene's collaborators can produce for a scene name.
OutcomeChoices(scene_name) ==
    LET scene == HashMapGet(scene_data, scene_name)
    IN IF IsSome(scene)
       THEN [ Range(ScriptEntities(Unwrap(scene).spawns)) -> BindOutcomes ]
       ELSE { << >> }

\* CameraReady without the checks that end in panic!
CameraReadyUnchecked(w, camera) == TRUE

\* lines 308-310: the active camera resolves to an entity with a Camera
CameraReady(w, camera) == IsSome(camera) /\ HasCamera(w, Unwrap(camera))

\* lines 294-341
LoadBody ==
    /\ \E asset_ok \in BOOLEAN, outcomes \in OutcomeChoices(StartupSceneName) :
         LET r == LoadScene(StartupSceneName, asset_ok, outcomes)
             loaded == r.result # "Panic" /\ CameraReady(r.world, r.active_camera)
         IN /\ world' = r.world
            /\ script_manager' = r.script_manager
            /\ active_camera' = r.active_camera
            /\ current_scene_name' = r.current_scene_name
            /\ last_load' = [requested |-> Some(StartupSceneName),
                             result |-> r.result,
                             binds |-> IF r.result \in {"Ok", "Panic"}
                                       THEN outcomes ELSE << >>]
            /\ render_pipeline' = IF loaded THEN Some("redback_runtime_default")
                                  ELSE render_pipeline
            /\ window' = IF loaded THEN [window EXCEPT !.some = TRUE] ELSE window
            /\ phase' = IF loaded THEN "Loaded" ELSE "Halted"
            /\ unbound' = { e \in unbound : ~HasInstance(r.script_manager, e) }
    /\ frame_log' = << >>
    /\ UNCHANGED <<runtime_data, scene_data, scene_command, input_state, pointer,
                   escaped, key_log>>

\* load at startup: scene_manager.switch("runtime_game"), line 288
Load ==
    /\ phase = "Unloaded"
    /\ LoadBody

\* load when the scene manager enters the scene again after an exit
Reload ==
    /\ phase = "Exited"
    /\ LoadBody

----------------------------------------------------------------------------
(* Scene::update *)

TickOutcomes == {"ok", "ok_moved", "err"}

Event(step, entity) ==
    [step |-> step, entity |-> entity, key |-> "", result |-> "",
     mouse_delta |-> None, moved |-> 0]

\* update_entity_script(entity, key, ..): the engine runs the instance it
\* holds for the entity under that key; a running script may move its entity.
ScriptRuns(sm, entity, key) == <<entity, key>> \in sm.instances

TickEntity(w, sm, entity_id, outcome) ==
    IF outcome = "ok_moved"
       /\ ScriptRuns(sm, entity_id, Unwrap(w[entity_id].script).name)
       /\ w[entity_id].position < MaxPos
    THEN [w EXCEPT ![entity_id].position = @ + 1]
    ELSE w

\* A frame in progress: the world so far and the steps taken so far.
\* TickScripts with the tick result propagated: the first Err ends the loop.
RECURSIVE TickScriptsStopOnErr(_, _, _, _, _)
TickScriptsStopOnErr(frame, sm, input, script_entities, ticks) ==
    IF script_entities = << >> THEN frame
    ELSE LET entity_id == Head(script_entities)
             ticked ==
                 [world |-> TickEntity(frame.world, sm, entity_id, ticks[entity_id]),
                  log |-> Append(frame.log,
                      [step |-> "tick", entity |-> entity_id,
                       key |-> Unwrap(frame.world[entity_id].script).name,
                       result |-> IF ticks[entity_id] = "err" THEN "err" ELSE "ok",
                       mouse_delta |-> input.mouse_delta, moved |-> pointer])]
         IN IF ticks[entity_id] = "err" THEN ticked
            ELSE TickScriptsStopOnErr(ticked, sm, input, Tail(script_entities), ticks)

RECURSIVE TickScripts(_, _, _, _, _)
\* lines 355-370: every collected entity is ticked, an Err is only logged
TickScripts(frame, sm, input, script_entities, ticks) ==
    IF script_entities = << >> THEN frame
    ELSE LET entity_id == Head(script_entities)
             ticked ==
                 [world |-> TickEntity(frame.world, sm, entity_id, ticks[entity_id]),
                  log |-> Append(frame.log,
                      [step |-> "tick", entity |-> entity_id,
                       key |-> Unwrap(frame.world[entity_id].script).name,
                       result |-> IF ticks[entity_id] = "err" THEN "err" ELSE "ok",
                       mouse_delta |-> input.mouse_delta, moved |-> pointer])]
         IN TickScripts(ticked, sm, input, Tail(script_entities), ticks)

\* lines 350-370: collect the script entities, then tick each
TickPhase(frame, sm, input, ticks) ==
    TickScripts(frame, sm, input, ScriptEntities(frame.world), ticks)

EventsFor(step, handles) == [i \in DOMAIN handles |-> Event(step, handles[i])]

\* FollowMatches with the matches in reverse query order: the last one wins.
FollowMatchesLastFirst(w, label) ==
    LET matches == SelectSeq(AdoptedEntities(w), LAMBDA h : w[h].label = label)
    IN [i \in 1..Len(matches) |-> matches[Len(matches) + 1 - i]]

\* lines 378-387: the first entity carrying the label, in query order
FollowMatches(w, label) ==
    SelectSeq(AdoptedEntities(w), LAMBDA h : w[h].label = label)

FollowCamera(w, ent) ==
    IF IsControlledCamera(ent) /\ IsSome(ent.follow)
       /\ FollowMatches(w, Unwrap(ent.follow).follow_target) # << >>
    THEN LET target == Unwrap(ent.follow)
             target_pos == w[Head(FollowMatches(w, target.follow_target))].position
         IN [ent EXCEPT !.camera = Some([Unwrap(@) EXCEPT
                                            !.eye = target_pos + target.offset,
                                            !.target = target_pos])]
    ELSE ent

\* lines 372-389
FollowPhase(frame) ==
    [world |-> [h \in DOMAIN frame.world |-> FollowCamera(frame.world, frame.world[h])],
     log |-> frame.log \o EventsFor("follow",
                 SelectSeq(ControlledCameras(frame.world),
                           LAMBDA h : IsSome(frame.world[h].follow)))]

\* Camera::update rebuilds the uniform from eye and target
UpdateCamera(ent) ==
    IF IsCamera(ent)
    THEN [ent EXCEPT !.camera = Some([Unwrap(@) EXCEPT
                         !.uniform = <<Unwrap(ent.camera).eye,
                                       Unwrap(ent.camera).target>>])]
    ELSE ent

\* lines 391-393
CameraPhase(frame) ==
    [world |-> [h \in DOMAIN frame.world |-> UpdateCamera(frame.world[h])],
     log |-> frame.log \o EventsFor("camera_update",
                                    Cameras(frame.world))]

\* AdoptedEntity::update writes the transform to the instance buffer
UpdateEntity(ent) ==
    IF IsAdopted(ent) THEN [ent EXCEPT !.instance = ent.position] ELSE ent

\* lines 395-398
EntityPhase(frame) ==
    [world |-> [h \in DOMAIN frame.world |-> UpdateEntity(frame.world[h])],
     log |-> frame.log \o EventsFor("entity_update",
                                    AdoptedEntities(frame.world))]

\* line 400
ResetPhase(frame) ==
    [frame EXCEPT !.log = Append(@, Event("mouse_delta_reset", 0))]

\* UpdateFrame with the entity synchronisation moved ahead of the cameras.
UpdateFrameEntitiesFirst(w, sm, input, ticks) ==
    ResetPhase(CameraPhase(FollowPhase(EntityPhase(
        TickPhase([world |-> w, log |-> << >>], sm, input, ticks)))))

\* lines 350-400: the phases of one update in the order the code runs them
UpdateFrame(w, sm, input, ticks) ==
    ResetPhase(EntityPhase(CameraPhase(FollowPhase(
        TickPhase([world |-> w, log |-> << >>], sm, input, ticks)))))

\* The write of line 400 storing the frame's pointer movement.
StoreMouseDelta(input) == [input EXCEPT !.mouse_delta = Some(pointer)]

\* The write of line 400 putting a fresh InputState in place.
ResetInputState(input) == InputStateNew

\* line 400: self.input_state.mouse_delta = None
ResetMouseDelta(input) == [input EXCEPT !.mouse_delta = None]

Update ==
    /\ phase = "Loaded"
    /\ \E ticks \in [ Range(ScriptEntities(world)) -> TickOutcomes ] :
         LET frame == UpdateFrame(world, script_manager, input_state, ticks)
         IN /\ world' = frame.world
            /\ frame_log' = frame.log
    /\ window' = IF ~input_state.is_cursor_locked /\ window.some     \* lines 344-348
                 THEN [window EXCEPT !.cursor_visible = TRUE] ELSE window
    /\ input_state' = ResetMouseDelta(input_state)                   \* line 400
    /\ pointer' = 0
    /\ phase' = "Updated"
    /\ UNCHANGED <<runtime_data, scene_data, current_scene_name, script_manager,
                   scene_command, render_pipeline, active_camera, last_load,
                   unbound, escaped, key_log>>

----------------------------------------------------------------------------
(* Scene::render *)

\* lines 413-455: one draw per (AdoptedEntity, Transform) entity, only with a
\* pipeline and a resolvable active camera
DrawEvents(w) ==
    IF IsSome(render_pipeline) /\ IsSome(active_camera)
       /\ HasCamera(w, Unwrap(active_camera))
    THEN LET adopted == AdoptedEntities(w)
         IN [i \in DOMAIN adopted |-> Event("draw", adopted[i])]
    ELSE << >>

Render ==
    /\ phase = "Updated"
    /\ window' = [window EXCEPT !.some = TRUE]                       \* line 412
    /\ frame_log' = frame_log \o DrawEvents(world)
    /\ phase' = "Loaded"
    /\ UNCHANGED <<runtime_data, scene_data, current_scene_name, world,
                   script_manager, scene_command, input_state, render_pipeline,
                   active_camera, last_load, unbound, pointer,
                   escaped, key_log>>

----------------------------------------------------------------------------
(* Scene::run_command and Scene::exit *)

\* run_command returning the pending command and leaving it in place.
MemClone(command) == [returned |-> command, pending |-> command]

\* line 465: std::mem::replace(&mut self.scene_command, SceneCommand::None)
MemReplace(command) == [returned |-> command, pending |-> "None"]

\* The scene manager polls the command after the update; Quit ends the frame
\* before it is rendered.
RunCommand ==
    /\ phase = "Updated"
    /\ LET taken == MemReplace(scene_command)
       IN /\ scene_command' = taken.pending
          /\ escaped' = FALSE
          /\ phase' = IF taken.returned = "Quit" THEN "Quitting" ELSE phase
    /\ UNCHANGED <<runtime_data, scene_data, current_scene_name, world,
                   script_manager, input_state, render_pipeline, window,
                   active_camera, last_load, frame_log, unbound, pointer,
                   key_log>>

\* RemoveScripts that stops after the first script entity.
RemoveFirstScriptOnly(sm, entities) ==
    IF entities = << >> THEN sm ELSE RemoveEntityScript(sm, Head(entities))

RECURSIVE RemoveScripts(_, _)
\* lines 459-461
RemoveScripts(sm, entities) ==
    IF entities = << >> THEN sm
    ELSE RemoveScripts(RemoveEntityScript(sm, Head(entities)), Tail(entities))

\* lines 458-462.  The scene manager calls exit when it quits and when it
\* leaves the scene; it may enter the scene again with load.
Exit ==
    /\ phase \in {"Quitting", "Loaded"}
    /\ script_manager' = RemoveScripts(script_manager, ScriptEntities(world))
    /\ unbound' = unbound \cup { e \in Range(ScriptEntities(world)) :
                                    HasInstance(script_manager, e) }
    /\ phase' = "Exited"
    /\ frame_log' = << >>
    /\ UNCHANGED <<runtime_data, scene_data, current_scene_name, world,
                   scene_command, input_state, render_pipeline, window,
                   active_camera, last_load, pointer, escaped, key_log>>

----------------------------------------------------------------------------
(* Keyboard and Mouse handlers: delivered between frames *)

Keys == {"Escape", "F1", "KeyW"}
MouseButtons == {"Left"}
Coords == 0..MaxCoord
Positions == Coords

\* window.inner_size() / 2: the pointer ranges over the top-left quadrant
\* of the window, the centre included
Center == MaxCoord

\* SetCursorLock with the flag passed to set_cursor_visible as it is.
SetCursorLockVisible(win, locked) ==
    [win EXCEPT !.cursor_visible = locked,
                !.cursor_pos = IF locked THEN Center ELSE @]

\* lines 479-489: the window follows the new value of is_cursor_locked
SetCursorLock(win, locked) ==
    [win EXCEPT !.cursor_visible = ~locked,
                !.cursor_pos = IF locked THEN Center ELSE @]

KeyDown(key) ==
    /\ phase = "Loaded"
    /\ CASE key = "Escape" ->
              /\ scene_command' = "Quit"
              /\ UNCHANGED <<input_state, window>>
         [] key = "F1" ->
              LET locked == ~input_state.is_cursor_locked
              IN /\ input_state' = [input_state EXCEPT !.is_cursor_locked = locked]
                 /\ window' = IF window.some
                              THEN SetCursorLock(window, locked)
                              ELSE window
                 /\ UNCHANGED scene_command
         [] OTHER ->
              /\ input_state' = [input_state EXCEPT !.pressed_keys = @ \cup {key}]
              /\ UNCHANGED <<scene_command, window>>
    /\ escaped' = (escaped \/ key = "Escape")
    /\ key_log' = key_log \cup {key}
    /\ frame_log' = << >>
    /\ UNCHANGED <<runtime_data, scene_data, current_scene_name, world,
                   script_manager, render_pipeline, active_camera, phase, last_load,
                   unbound, pointer>>

\* key_up that leaves the key in the set.
PressedKeysKeep(input, key) == input

\* line 498: self.input_state.pressed_keys.remove(&key)
PressedKeysRemove(input, key) == [input EXCEPT !.pressed_keys = @ \ {key}]

KeyUp(key) ==
    /\ phase = "Loaded"
    /\ input_state' = PressedKeysRemove(input_state, key)
    /\ key_log' = key_log \ {key}
    /\ frame_log' = << >>
    /\ UNCHANGED <<runtime_data, scene_data, current_scene_name, world,
                   script_manager, scene_command, render_pipeline, window,
                   active_camera, phase, last_load,
                   unbound, pointer, escaped>>

\* Camera::track_mouse_delta(dx, dy): the camera turns by the delta
TrackMouseDelta(camera, dx) == [camera EXCEPT !.look = dx]

\* MouseLook over every controlled camera of the world.
MouseLookAllCameras(w, camera, dx) ==
    [h \in DOMAIN w |->
        IF IsControlledCamera(w[h])
        THEN [w[h] EXCEPT !.camera = Some(TrackMouseDelta(Unwrap(@), dx))]
        ELSE w[h]]

\* lines 512-521: query_one::<(&mut Camera, &CameraComponent)>(active_camera)
MouseLook(w, camera, dx) ==
    IF IsSome(camera) /\ HasCameraAndComponent(w, Unwrap(camera))
    THEN [w EXCEPT ![Unwrap(camera)].camera =
                Some(TrackMouseDelta(Unwrap(@), dx))]
    ELSE w

MouseMove(position) ==
    /\ phase = "Loaded"
    /\ IF input_state.is_cursor_locked /\ window.some
       THEN LET dx == position - Center
            IN /\ world' = MouseLook(world, active_camera, dx)
               /\ window' = [window EXCEPT !.cursor_pos = Center,
                                           !.cursor_visible = FALSE]
       ELSE /\ world' = world
            /\ window' = [window EXCEPT !.cursor_pos = position]
    /\ input_state' = [input_state EXCEPT !.mouse_pos = position]    \* line 527
    /\ pointer' = pointer + position - input_state.mouse_pos
    /\ frame_log' = << >>
    /\ UNCHANGED <<runtime_data, scene_data, current_scene_name, script_manager,
                   scene_command, render_pipeline, active_camera, phase, last_load,
                   unbound, escaped, key_log>>

MouseDown(button) ==
    /\ phase = "Loaded"
    /\ input_state' = [input_state EXCEPT !.mouse_button = @ \cup {button}]
    /\ frame_log' = << >>
    /\ UNCHANGED <<runtime_data, scene_data, current_scene_name, world,
                   script_manager, scene_command, render_pipeline, window,
                   active_camera, phase, last_load,
                   unbound, pointer, escaped, key_log>>

MouseUp(button) ==
    /\ phase = "Loaded"
    /\ input_state' = [input_state EXCEPT !.mouse_button = @ \ {button}]
    /\ frame_log' = << >>
    /\ UNCHANGED <<runtime_data, scene_data, current_scene_name, world,
                   script_manager, scene_command, render_pipeline, window,
                   active_camera, phase, last_load,
                   unbound, pointer, escaped, key_log>>

----------------------------------------------------------------------------
(* Properties *)

Ticks == { i \in DOMAIN frame_log : frame_log[i].step = "tick" }
StepsOf(step) == { i \in DOMAIN frame_log : frame_log[i].step = step }
Running == phase \in {"Loaded", "Updated", "Quitting"}
LoadFailed == last_load.result \in {"SceneNotFound", "AssetFailure"}

\* C1: a load_scene that fails (scene not in the catalogue, or materializing
\* fails) leaves the live world, the active camera and current_scene_name as
\* they were before the call, and reports the error.
C1_FailedLoadKeepsScene ==
    [][ ( /\ phase \in {"Unloaded", "Exited"}
          /\ last_load'.result \in {"SceneNotFound", "AssetFailure"} )
        => ( /\ world' = world
             /\ active_camera' = active_camera
             /\ current_scene_name' = current_scene_name ) ]_vars

StepRank(step) ==
    CASE step = "tick" -> 1
      [] step = "follow" -> 2
      [] step = "camera_update" -> 3
      [] step = "entity_update" -> 4
      [] step = "mouse_delta_reset" -> 5
      [] step = "draw" -> 6

\* C2: within a frame the steps run in a fixed order: every script tick, then
\* every follow-target resolution, then every camera update, then every
\* entity synchronisation, then the mouse_delta reset as the last step of
\* the update; a draw is only submitted after the update of its frame.
C2_FramePhaseOrder ==
    /\ \A i, j \in DOMAIN frame_log :
         i < j => StepRank(frame_log[i].step) <= StepRank(frame_log[j].step)
    /\ phase \in {"Updated", "Quitting"} =>
         /\ frame_log # << >>
         /\ frame_log[Len(frame_log)].step = "mouse_delta_reset"
    /\ \A i \in StepsOf("draw") : \E j \in StepsOf("mouse_delta_reset") : j < i
    /\ Cardinality(StepsOf("mouse_delta_reset")) <= 1

C2_Witness ==
    /\ phase = "Loaded"
    /\ \A step \in {"tick", "follow", "camera_update", "entity_update",
                    "mouse_delta_reset", "draw"} : StepsOf(step) # {}
    /\ Cardinality(Ticks) >= 2

\* C3: a script instance removed by exit is never ticked again: no update
\* issues a tick for an entity whose instance exit removed (and that has not
\* been bound again), also after a new world reuses the handle value.
C3_NoTickAfterUnbind ==
    \A i \in Ticks : frame_log[i].entity \notin unbound

\* C4: whenever a scene load clears the live world, the script bindings of
\* the discarded world are already removed, and no state holds a script
\* binding for a handle that is not a script entity of the live world.
C4_UnbindBeforeClear ==
    /\ phase \in {"Unloaded", "Exited"} => script_manager.instances = {}
    /\ \A i \in script_manager.instances :
         i[1] \in Handles(world) /\ IsScripted(world[i[1]])

\* a reload cleared a world whose bound scripts exit had removed before
C4_Witness ==
    /\ last_load.result = "AssetFailure"
    /\ world = << >>
    /\ Cardinality(unbound) >= 2

BindFailures == { e \in DOMAIN last_load.binds : last_load.binds[e] # "ok" }

\* C5: a bind failure for one entity at scene load (source unreadable, load
\* error, init error) leaves only that entity unscripted: the other script
\* entities are bound, load_scene succeeds, current_scene_name is the
\* requested scene, and the load does not panic.
C5_BindFailureIsLocal ==
    BindFailures # {} =>
        /\ last_load.result = "Ok"
        /\ current_scene_name = Unwrap(last_load.requested)
        /\ phase # "Halted"
        /\ phase # "Exited" =>
             \A e \in DOMAIN last_load.binds \ BindFailures :
                 HasInstance(script_manager, e)

\* C6: an entity whose script failed to bind at scene load is skipped from
\* then on: no later update issues a tick for it.
C6_NoTickAfterBindFailure ==
    \A i \in Ticks : frame_log[i].entity \notin BindFailures

\* C7: a failing script tick does not abort the frame: in the same update
\* every script entity is ticked exactly once, and follow resolution, camera
\* update, entity synchronisation and the mouse_delta reset all run.
C7_TickFailureKeepsFrame ==
    (phase = "Updated" /\ \E i \in Ticks : frame_log[i].result = "err") =>
        /\ \A e \in Range(ScriptEntities(world)) :
             Cardinality({ i \in Ticks : frame_log[i].entity = e }) = 1
        /\ \A h \in Handles(world) :
             /\ (IsControlledCamera(world[h]) /\ IsSome(world[h].follow)) =>
                    \E i \in StepsOf("follow") : frame_log[i].entity = h
             /\ IsCamera(world[h]) =>
                    /\ \E i \in StepsOf("camera_update") : frame_log[i].entity = h
                    /\ Unwrap(world[h].camera).uniform =
                          <<Unwrap(world[h].camera).eye, Unwrap(world[h].camera).target>>
             /\ IsAdopted(world[h]) =>
                    /\ \E i \in StepsOf("entity_update") : frame_log[i].entity = h
                    /\ world[h].instance = world[h].position
        /\ frame_log[Len(frame_log)].step = "mouse_delta_reset"
        /\ input_state.mouse_delta = None

\* the first of two script entities failed its tick and the frame completed
C7_Witness ==
    /\ phase = "Updated"
    /\ Cardinality(Ticks) = 2
    /\ \E i, j \in Ticks : /\ i < j
                           /\ frame_log[i].result = "err"
                           /\ frame_log[j].result = "ok"

DeclaredNames == { runtime_data[i].scene_name : i \in DOMAIN runtime_data }

\* the startup scene the specification asks for
DefaultSceneName ==
    IF "Default" \in DeclaredNames THEN Some("Default")
    ELSE IF runtime_data # << >> THEN Some(runtime_data[1].scene_name)
    ELSE None

\* C8: the startup scene is "Default" if the catalogue has it, else the
\* first declared scene; only an empty catalogue leaves no scene to load.
C8_StartupSceneChoice ==
    IsSome(last_load.requested) =>
        /\ IsSome(DefaultSceneName) => last_load.requested = DefaultSceneName
        /\ last_load.result = "SceneNotFound" => runtime_data = << >>

\* C9: frames only run with a successfully loaded scene and an active camera
\* that resolves to a Camera; a load whose scene cannot be loaded or that
\* ends without such a camera halts, and the render pipeline is never set
\* unless a scene has loaded.
C9_LoadedNeedsSceneAndCamera ==
    /\ Running =>
         /\ last_load.result = "Ok"
         /\ IsSome(active_camera)
         /\ HasCamera(world, Unwrap(active_camera))
    /\ LoadFailed => phase = "Halted"
    /\ IsSome(render_pipeline) => current_scene_name # ""

\* startup halted on a scene that could not be loaded, the pipeline unset
C9_Witness ==
    /\ phase = "Halted"
    /\ LoadFailed
    /\ active_camera = None
    /\ render_pipeline = None

\* C10: the mouse_delta a frame's update reads is the net movement the
\* mouse-move events delivered since the end of the previous update, and it
\* is empty at the start of the next frame when no movement arrived.
C10_MouseDeltaIsNetMovement ==
    /\ \A i \in Ticks :
         frame_log[i].mouse_delta =
            IF frame_log[i].moved = 0 THEN None ELSE Some(frame_log[i].moved)
    /\ (phase = "Loaded" /\ pointer = 0) => input_state.mouse_delta = None

\* C11: at the end of every update call mouse_delta is empty, whatever
\* input events came before the update and whether or not a script tick of
\* the update failed.
C11_MouseDeltaEmptyAfterUpdate ==
    phase = "Updated" => input_state.mouse_delta = None

\* an update with a failed tick, after key, button and mouse-move events
C11_Witness ==
    /\ phase = "Updated"
    /\ input_state.mouse_delta = None
    /\ \E i \in Ticks : frame_log[i].result = "err"
    /\ input_state.pressed_keys # {}
    /\ input_state.mouse_button # {}
    /\ input_state.mouse_pos # 0

FollowingCameras(w) ==
    { h \in Handles(w) : IsControlledCamera(w[h]) /\ IsSome(w[h].follow) }

Labelled(w, label) ==
    { e \in Handles(w) : IsAdopted(w[e]) /\ w[e].label = label }

\* C12: after an update, a camera with follow target label L and offset O
\* looks at the position P of the first entity labelled L and has its eye at
\* P + O; when no entity is labelled L its eye and target are what they
\* were before the update.
C12_FollowResolution ==
    [][ (phase = "Loaded" /\ phase' = "Updated") =>
          \A h \in FollowingCameras(world') :
              LET follow == Unwrap(world'[h].follow)
                  labelled == Labelled(world', follow.follow_target)
                  camera == Unwrap(world'[h].camera)
              IN IF labelled = {}
                 THEN /\ camera.eye = Unwrap(world[h].camera).eye
                      /\ camera.target = Unwrap(world[h].camera).target
                 ELSE LET first == CHOOSE e \in labelled :
                                       \A o \in labelled : e <= o
                      IN /\ camera.target = world'[first].position
                         /\ camera.eye = world'[first].position + follow.offset
      ]_vars

\* after an update: a camera follows the first of two entities that share
\* its label and stand apart, and a camera without a match kept its place
C12_Witness ==
    /\ phase = "Updated"
    /\ \E h \in FollowingCameras(world) :
          LET labelled == Labelled(world, Unwrap(world[h].follow).follow_target)
          IN /\ \E a, b \in labelled : /\ a < b
                                       /\ world[a].position # world[b].position
                                       /\ Unwrap(world[h].camera).target =
                                              world[a].position
    /\ \E h \in FollowingCameras(world) :
          /\ Labelled(world, Unwrap(world[h].follow).follow_target) = {}
          /\ Unwrap(world[h].camera).eye # 0

\* C13: a mouse-move turns at most the active camera, and only while the
\* cursor is locked: an unlocked mouse-move changes no camera, and no
\* mouse-move changes a camera other than the active one (nor anything of
\* the active camera but its orientation).
C13_MouseLookOnlyActiveCamera ==
    [][ \A position \in Positions :
          MouseMove(position) =>
            /\ Len(world') = Len(world)
            /\ ~input_state.is_cursor_locked => world' = world
            /\ \A h \in Handles(world) :
                  \/ world'[h] = world[h]
                  \/ /\ active_camera = Some(h)
                     /\ input_state.is_cursor_locked
                     /\ IsCamera(world[h])
                     /\ world'[h] = [world[h] EXCEPT !.camera =
                            Some([Unwrap(@) EXCEPT
                                    !.look = Unwrap(world'[h].camera).look])]
      ]_vars

\* a locked mouse-move has turned the active camera and the scene's other
\* camera is as it was spawned
C13_Witness ==
    /\ phase = "Loaded"
    /\ input_state.is_cursor_locked
    /\ IsSome(active_camera)
    /\ Unwrap(world[Unwrap(active_camera)].camera).look # 0
    /\ \E h \in Handles(world) : /\ Some(h) # active_camera
                                 /\ IsCamera(world[h])
                                 /\ Unwrap(world[h].camera).look = 0

\* C14: once the scene is loaded, after every F1 key press, mouse-move and
\* update the cursor is hidden exactly when is_cursor_locked is set, and
\* every mouse-move delivered while the cursor is locked puts the cursor
\* back at the centre of the window.
C14_CursorHiddenIffLocked ==
    /\ [](Running => window.cursor_visible = ~input_state.is_cursor_locked)
    /\ [][ \A position \in Positions :
             (MouseMove(position) /\ input_state.is_cursor_locked) =>
                 /\ window'.cursor_pos = Center
                 /\ ~window'.cursor_visible ]_vars

\* locked and hidden: the pointer was reported off-centre, the active camera
\* turned, and the cursor is back at the centre
C14_Witness ==
    /\ phase = "Loaded"
    /\ input_state.is_cursor_locked
    /\ ~window.cursor_visible
    /\ input_state.mouse_pos # Center
    /\ window.cursor_pos = Center
    /\ Unwrap(world[Unwrap(active_camera)].camera).look # 0

\* C15: exit removes the script instance of every script entity of the live
\* world and releases the camera and world state: after exit no script
\* binding remains, the world holds no entity and there is no active camera.
C15_ExitReleasesScene ==
    phase = "Exited" =>
        /\ script_manager.instances = {}
        /\ world = << >>
        /\ active_camera = None

DuplicateNames == Len(runtime_data) > Cardinality(DeclaredNames)

\* C16: a package that declares two scenes under the same scene_name is a
\* load-time error: no scene of it is ever loaded and run, the catalogue
\* never silently keeps one of the two and drops the other.
C16_DuplicateSceneNameIsError ==
    DuplicateNames =>
        /\ last_load.result # "Ok"
        /\ ~Running

\* the fields of the input state other than mouse_delta
HeldInput(input) ==
    <<input.pressed_keys, input.mouse_button, input.mouse_pos,
      input.is_cursor_locked>>

InputEvent ==
    \/ \E key \in Keys : KeyDown(key) \/ KeyUp(key)
    \/ \E position \in Positions : MouseMove(position)
    \/ \E button \in MouseButtons : MouseDown(button) \/ MouseUp(button)

\* C17: the input state is read-only during a frame: update leaves
\* pressed_keys, mouse_button, mouse_pos and is_cursor_locked as they were
\* (it writes mouse_delta only), render leaves the whole input state as it
\* was, and those fields change only in a keyboard or mouse event handler.
C17_InputReadOnlyInFrame ==
    [][ /\ Update => HeldInput(input_state') = HeldInput(input_state)
        /\ Render => input_state' = input_state
        /\ HeldInput(input_state') # HeldInput(input_state) => InputEvent
      ]_vars

\* a frame was updated and drawn with keys and buttons held, the pointer
\* moved and the cursor locked
C17_Witness ==
    /\ phase = "Loaded"
    /\ StepsOf("tick") # {}
    /\ StepsOf("draw") # {}
    /\ input_state.pressed_keys # {}
    /\ input_state.mouse_button # {}
    /\ input_state.mouse_pos # 0
    /\ input_state.is_cursor_locked

\* C19: in every reachable state active_camera is None or the handle of an
\* entity of the live world that carries a Camera; no outcome of load_scene,
\* success or failure, leaves it pointing into a world that was cleared.
C19_ActiveCameraIsLive ==
    IsSome(active_camera) => HasCamera(world, Unwrap(active_camera))

\* C20: every script entity is ticked under the key its script was loaded
\* and initialised under: the key update passes to update_entity_script for
\* an entity is the key load_script returned and init_entity_script was
\* given for that entity.
C20_TickKeyIsBindKey ==
    \A i \in Ticks :
        \A instance \in script_manager.instances :
            instance[1] = frame_log[i].entity => frame_log[i].key = instance[2]

\* C21: a scene command is delivered exactly once: run_command returns Quit
\* (the scene manager then quits) exactly when Escape went down since the
\* previous run_command, and it leaves no command pending, so every further
\* run_command returns None until Escape goes down again.
C21_CommandDeliveredOnce ==
    [][ RunCommand =>
          /\ (phase' = "Quitting") = escaped
          /\ scene_command' = "None"
          /\ ~escaped => phase' = phase
      ]_vars

\* Escape went down, run_command returned Quit and nothing is pending
C21_Witness ==
    /\ phase = "Quitting"
    /\ ~escaped
    /\ scene_command = "None"

\* the keys key_down handles itself instead of recording them
ControlKeys == {"Escape", "F1"}

\* C22: after any sequence of key-down and key-up events pressed_keys is
\* exactly the set of keys other than Escape and F1 whose latest event was
\* key-down (Escape and F1 are never members); of the scene's state an F1
\* key-down changes only is_cursor_locked, which it flips, and an Escape
\* key-down changes only the pending scene command.  (What F1 asks of the
\* window's cursor is the subject of C14.)
C22_PressedKeysAreHeldKeys ==
    /\ [](input_state.pressed_keys = key_log \ ControlKeys)
    /\ [][ /\ KeyDown("F1") =>
               /\ input_state' =
                     [input_state EXCEPT !.is_cursor_locked = ~@]
               /\ window'.some = window.some
               /\ UNCHANGED <<scene_data, current_scene_name, world,
                              script_manager, scene_command, render_pipeline,
                              active_camera>>
           /\ KeyDown("Escape") =>
               /\ scene_command' = "Quit"
               /\ UNCHANGED <<scene_data, current_scene_name, world,
                              script_manager, input_state, render_pipeline,
                              window, active_camera>>
         ]_vars

\* Escape, F1 and another key are down, and only the other key is recorded
C22_Witness ==
    /\ key_log = Keys
    /\ input_state.pressed_keys = Keys \ ControlKeys
    /\ input_state.pressed_keys # {}
    /\ input_state.is_cursor_locked
    /\ scene_command = "Quit"

----------------------------------------------------------------------------
(* Specifications *)

OnePackage == << [scene_name |-> "Default", spawns |-> MainSpawns],
                 [scene_name |-> "Level2", spawns |-> MainSpawns] >>

\* One package, started once.
InitOnePackage ==
    /\ Init
    /\ runtime_data = OnePackage

ChasePackage == << [scene_name |-> "Default", spawns |-> ChaseSpawns] >>

\* The package with the chase scene, started once.
InitChasePackage ==
    /\ Init
    /\ runtime_data = ChasePackage

\* The scene lifecycle over every package, with the quit key; the scene
\* manager may leave the scene and enter it again.
SceneNext ==
    \/ Load
    \/ Reload
    \/ Update
    \/ Render
    \/ RunCommand
    \/ Exit
    \/ KeyDown("Escape")

\* One run of the scene, with every input event.
FrameNext ==
    \/ Load
    \/ Update
    \/ Render
    \/ RunCommand
    \/ Exit
    \/ \E key \in Keys : KeyDown(key)
    \/ \E key \in Keys : KeyUp(key)
    \/ \E position \in Positions : MouseMove(position)
    \/ \E button \in MouseButtons : MouseDown(button)
    \/ \E button \in MouseButtons : MouseUp(button)

Next ==
    \/ SceneNext
    \/ FrameNext

\* Every package, every callback, re-entry included.
Spec == Init /\ [][Next]_vars

\* Every package: scene loading, frames, exit and re-entry.
SceneSpec == Init /\ [][SceneNext]_vars

\* One package: a single run of the scene under every input event.
FrameSpec == InitOnePackage /\ [][FrameNext]_vars

\* The chase scene: a single run under every input event.
ChaseSpec == InitChasePackage /\ [][FrameNext]_vars

====
